---------------------------- MODULE Spec2Model ----------------------------
(***************************************************************************)
(* LoRARequest (vllm/lora/request.py): a msgspec.Struct whose              *)
(* __post_init__ validates the adapter source, and whose __eq__/__hash__   *)
(* identify a request by lora_name alone.                                  *)
(*                                                                         *)
(* Conventions.  A Python str is a sequence of one-character strings.  An  *)
(* Optional value is None (the empty tuple) or Some(x) (a 1-tuple).  A     *)
(* dict is a set of <<key, value>> pairs, so the empty dict {} is Some({}) *)
(* and differs from None.                                                  *)
(***************************************************************************)
EXTENDS Integers, Sequences, FiniteSets, TLC

VARIABLES
    objs,   \* the LoRARequest objects alive: slot -> None | Some(fields)
    last    \* the constructor call just made: None | Some([args, outcome, slot])

vars == <<objs, last>>

---------------------------------------------------------------------------
(* Bounds of the model *)

MaxId == 2
MaxPathLen == 2
HashSeed == 1
HashMod == 7

---------------------------------------------------------------------------
(* Python values *)

None == <<>>
Some(x) == <<x>>

SeqsUpTo(S, n) == UNION {[1..k -> S] : k \in 0..n}

\* characters str.strip() removes (str.isspace); a sample of them
WhiteSpace == {" ", "\t", "\n"}

\* ord(c) for the characters the model uses
Ord(c) ==
    CASE c = "\t" -> 9
      [] c = "\n" -> 10
      [] c = " "  -> 32
      [] c = "A"  -> 65
      [] c = "a"  -> 97
      [] c = "b"  -> 98
      [] c = "m"  -> 109
      [] c = "x"  -> 120

\* str.lstrip(), str.rstrip(), str.strip() with no argument
RECURSIVE LStrip(_)
LStrip(s) ==
    IF s # <<>> /\ Head(s) \in WhiteSpace THEN LStrip(Tail(s)) ELSE s

RECURSIVE RStrip(_)
RStrip(s) ==
    IF s # <<>> /\ s[Len(s)] \in WhiteSpace
    THEN RStrip(SubSeq(s, 1, Len(s) - 1))
    ELSE s

Strip(s) == RStrip(LStrip(s))

\* bool(s) of a str
Truthy(s) == Len(s) > 0

\* hash(s) of a str: 0 for "", otherwise a function of the characters and of
\* the interpreter's hash seed (HashSeed, fixed for the process), folded into
\* HashMod values, so that distinct strings may collide
RECURSIVE HashFold(_, _)
HashFold(h, s) ==
    IF s = <<>> THEN h
    ELSE HashFold((h * 31 + Ord(Head(s))) % HashMod, Tail(s))

StrHash(s) == IF s = <<>> THEN 0 ELSE HashFold(HashSeed, s)

---------------------------------------------------------------------------
(* The fields of LoRARequest and the values each is given *)

Names == {<<"a">>, <<"A">>, <<"b">>}
Ids == -1..MaxId
Paths == SeqsUpTo({" ", "\t", "x"}, MaxPathLen)
BaseModelNames == {None, Some(<<"m">>)}
TensorizerConfigs == {None, Some({})}
PeftConfigs == {None, Some({}), Some({<<"r", 8>>})}
LoraTensors == {None, Some({}), Some({<<"w", 0>>})}

\* field name -> values, one object at a time
Dom ==
    [lora_name |-> Names,
     lora_int_id |-> Ids,
     lora_path |-> Paths,
     base_model_name |-> BaseModelNames,
     tensorizer_config_dict |-> TensorizerConfigs,
     load_inplace |-> BOOLEAN,
     peft_config |-> PeftConfigs,
     lora_tensors |-> LoraTensors]

\* field name -> values, two objects side by side
LifeDom ==
    [lora_name |-> {<<"a">>, <<"A">>},
     lora_int_id |-> 0..2,
     lora_path |-> {<<>>, <<"x">>},
     base_model_name |-> BaseModelNames,
     tensorizer_config_dict |-> TensorizerConfigs,
     load_inplace |-> BOOLEAN,
     peft_config |-> {None, Some({<<"r", 8>>})},
     lora_tensors |-> {None, Some({})}]

Fields == DOMAIN Dom

\* every argument list LoRARequest(...) is called with
Inputs(D) ==
    [lora_name : D.lora_name,
     lora_int_id : D.lora_int_id,
     lora_path : D.lora_path,
     base_model_name : D.base_model_name,
     tensorizer_config_dict : D.tensorizer_config_dict,
     load_inplace : D.load_inplace,
     peft_config : D.peft_config,
     lora_tensors : D.lora_tensors]

Slots == {"a", "b"}

---------------------------------------------------------------------------
(* LoRARequest.__post_init__ *)

\* line 35, with the comparison off by one
BadId_lt0(r) == r.lora_int_id < 0

\* if self.lora_int_id < 1
BadId(r) == r.lora_int_id < 1

\* line 38 without the strip(): any non-empty path counts
has_path_nostrip(r) == Truthy(r.lora_path)

\* has_path = bool(self.lora_path and self.lora_path.strip())
has_path(r) == Truthy(r.lora_path) /\ Truthy(Strip(r.lora_path))

\* line 39 testing truthiness, so that an empty dict counts as absent
has_peft_truthy(r) == r.peft_config # None /\ r.peft_config[1] # {}

\* has_peft = self.peft_config is not None
has_peft(r) == r.peft_config # None

\* has_tensors = self.lora_tensors is not None
has_tensors(r) == r.lora_tensors # None

\* line 42 applied only when there is no path
Incomplete_nopath(r) == ~has_path(r) /\ has_peft(r) # has_tensors(r)

\* if has_peft != has_tensors
Incomplete(r) == has_peft(r) # has_tensors(r)

\* has_tensor_route = has_peft and has_tensors
has_tensor_route(r) == has_peft(r) /\ has_tensors(r)

\* line 49 with the check left out
Ambiguous_never(r) == FALSE

\* if has_path and has_tensor_route
Ambiguous(r) == has_path(r) /\ has_tensor_route(r)

\* line 55 testing the raw path for emptiness
Missing_rawpath(r) == r.lora_path = <<>> /\ ~has_tensor_route(r)

\* if not has_path and not has_tensor_route
Missing(r) == ~has_path(r) /\ ~has_tensor_route(r)

\* The ValueError raised, named after what it reports:
\*   InvalidIdentifier         "id must be > 0, got ..."
\*   IncompleteInMemorySource  "peft_config and lora_tensors must be provided together."
\*   AmbiguousSource           "Ambiguous LoRA source: ..."
\*   MissingSource             "Missing LoRA source: ..."
\* and "ok" when __post_init__ returns.
Outcomes ==
    {"ok", "InvalidIdentifier", "IncompleteInMemorySource",
     "AmbiguousSource", "MissingSource"}

\* __post_init__ with the identifier test moved after the source tests
PostInit_idlast(r) ==
    IF Incomplete(r) THEN "IncompleteInMemorySource"
    ELSE IF Ambiguous(r) THEN "AmbiguousSource"
    ELSE IF Missing(r) THEN "MissingSource"
    ELSE IF BadId(r) THEN "InvalidIdentifier"
    ELSE "ok"

PostInit(r) ==
    IF BadId(r) THEN "InvalidIdentifier"
    ELSE IF Incomplete(r) THEN "IncompleteInMemorySource"
    ELSE IF Ambiguous(r) THEN "AmbiguousSource"
    ELSE IF Missing(r) THEN "MissingSource"
    ELSE "ok"

---------------------------------------------------------------------------
(* LoRARequest.__eq__ and __hash__ *)

\* the field-wise comparison a Struct has when __eq__ is not overridden
Eq_fieldwise(self, value) == self = value

\* isinstance(value, self.__class__) and self.lora_name == value.lora_name;
\* every object of the model is a LoRARequest
Eq(self, value) == self.lora_name = value.lora_name

\* hash(self.lora_name)
Hash(self) == StrHash(self.lora_name)

---------------------------------------------------------------------------
(* Operations *)

Init ==
    /\ objs = [s \in Slots |-> None]
    /\ last = None

\* obj = LoRARequest(**args), args drawn from D: msgspec's __init__ stores
\* the fields and calls __post_init__; when that raises, no object reaches
\* the caller
Construct(s, D) ==
    /\ last = None
    /\ objs[s] = None
    /\ \E args \in Inputs(D) :
        LET o == PostInit(args) IN
            /\ last' = Some([args |-> args, outcome |-> o, slot |-> s])
            /\ objs' = IF o = "ok" THEN [objs EXCEPT ![s] = Some(args)]
                       ELSE objs

\* the caller takes the object, or catches the ValueError, and goes on
Return ==
    /\ last # None
    /\ last' = None
    /\ UNCHANGED objs

\* obj.<f> = v, v drawn from D[f]: the Struct is not frozen, so the attribute
\* is stored; __post_init__ does not run again
SetAttr(s, D) ==
    /\ last = None
    /\ objs[s] # None
    /\ \E f \in Fields : \E v \in D[f] :
        objs' = [objs EXCEPT ![s] = Some([objs[s][1] EXCEPT ![f] = v])]
    /\ UNCHANGED last

\* the last reference to the object is dropped
Discard(s) ==
    /\ last = None
    /\ objs[s] # None
    /\ objs' = [objs EXCEPT ![s] = None]
    /\ UNCHANGED last

\* one request at a time, over every combination of field values
Next ==
    \/ Construct("a", Dom)
    \/ Return
    \/ SetAttr("a", Dom)
    \/ Discard("a")

Spec == Init /\ [][Next]_vars

\* two requests alive together
NextLife ==
    \/ \E s \in Slots : Construct(s, LifeDom)
    \/ Return
    \/ \E s \in Slots : SetAttr(s, LifeDom)
    \/ \E s \in Slots : Discard(s)

SpecLife == Init /\ [][NextLife]_vars

TypeOK ==
    /\ \A s \in Slots : objs[s] # None => objs[s][1] \in Inputs(Dom)
    /\ last # None => last[1].outcome \in Outcomes

---------------------------------------------------------------------------
(* What the claims speak of, stated apart from the code's own tests *)

\* a path that is non-empty after trimming: it has a non-whitespace character
NonBlank(p) == \E k \in 1..Len(p) : p[k] \notin WhiteSpace

Present(m) == m # None

PathRoute(i) ==
    NonBlank(i.lora_path) /\ ~Present(i.peft_config) /\ ~Present(i.lora_tensors)

InMemoryRoute(i) ==
    ~NonBlank(i.lora_path) /\ Present(i.peft_config) /\ Present(i.lora_tensors)

PartialPair(i) == Present(i.peft_config) # Present(i.lora_tensors)

\* the construction invariants of a record
ValidRecord(i) ==
    /\ i.lora_int_id >= 1
    /\ ~PartialPair(i)
    /\ PathRoute(i) \/ InMemoryRoute(i)

Called == last # None
Args == last[1].args
Outcome == last[1].outcome
Returned == objs[last[1].slot]

---------------------------------------------------------------------------
(* Construction *)

\* C1: construction succeeds if and only if numeric_id >= 1 and exactly one
\* source route is satisfied with no partial pair; on success the record with
\* the given fields is returned, otherwise construction raises and no record
\* is returned.
C1_ConstructIffValid ==
    Called =>
        /\ (Outcome = "ok") <=>
            (Args.lora_int_id >= 1 /\ (PathRoute(Args) \/ InMemoryRoute(Args)))
        /\ Returned = IF Outcome = "ok" THEN Some(Args) ELSE None

\* a whitespace-only path with both mappings present was accepted
C1_Witness ==
    /\ Called
    /\ Args.lora_path = <<" ", "\t">>
    /\ Present(Args.peft_config) /\ Present(Args.lora_tensors)
    /\ Outcome = "ok"
    /\ Returned = Some(Args)

\* C2: for every numeric_id <= 0, construction fails with InvalidIdentifier,
\* whichever valid source route the other fields form.
C2_NonPositiveIdRejected ==
    (Called /\ Args.lora_int_id <= 0 /\ (PathRoute(Args) \/ InMemoryRoute(Args)))
        => (Outcome = "InvalidIdentifier" /\ Returned = None)

\* numeric_id 0 with a valid path route was rejected
C2_Witness ==
    /\ Called
    /\ Args.lora_int_id = 0
    /\ PathRoute(Args)
    /\ Outcome = "InvalidIdentifier"

\* C3: with numeric_id >= 1 and exactly one of source_config / source_tensors
\* present, construction fails with IncompleteInMemorySource, whatever the
\* path is.
C3_PartialPairRejected ==
    (Called /\ Args.lora_int_id >= 1 /\ PartialPair(Args))
        => Outcome = "IncompleteInMemorySource"

\* a non-empty path with source_config alone was rejected as incomplete
C3_Witness ==
    /\ Called
    /\ Args.lora_int_id >= 1
    /\ NonBlank(Args.lora_path)
    /\ Present(Args.peft_config) /\ ~Present(Args.lora_tensors)
    /\ Outcome = "IncompleteInMemorySource"

\* C4: with numeric_id >= 1, a path non-empty after trimming and both
\* source_config and source_tensors present, construction fails with
\* AmbiguousSource.
C4_BothRoutesRejected ==
    (/\ Called
     /\ Args.lora_int_id >= 1
     /\ NonBlank(Args.lora_path)
     /\ Present(Args.peft_config) /\ Present(Args.lora_tensors))
        => Outcome = "AmbiguousSource"

\* a path with surrounding whitespace and both mappings was rejected
C4_Witness ==
    /\ Called
    /\ Args.lora_path = <<" ", "x">>
    /\ Present(Args.peft_config) /\ Present(Args.lora_tensors)
    /\ Outcome = "AmbiguousSource"

\* C5: with numeric_id >= 1, neither source_config nor source_tensors present
\* and a path that is empty or whitespace-only, construction fails with
\* MissingSource.
C5_NoRouteRejected ==
    (/\ Called
     /\ Args.lora_int_id >= 1
     /\ ~NonBlank(Args.lora_path)
     /\ ~Present(Args.peft_config) /\ ~Present(Args.lora_tensors))
        => Outcome = "MissingSource"

\* a whitespace-only path with no mapping was rejected as missing
C5_Witness ==
    /\ Called
    /\ Args.lora_path = <<"\t", " ">>
    /\ ~Present(Args.peft_config) /\ ~Present(Args.lora_tensors)
    /\ Outcome = "MissingSource"

\* the error the fixed order of the checks gives
FirstInOrder(i) ==
    IF i.lora_int_id < 1 THEN "InvalidIdentifier"
    ELSE IF PartialPair(i) THEN "IncompleteInMemorySource"
    ELSE IF NonBlank(i.lora_path) /\ Present(i.peft_config)
                /\ Present(i.lora_tensors)
        THEN "AmbiguousSource"
    ELSE IF ~NonBlank(i.lora_path) /\ ~Present(i.peft_config)
                /\ ~Present(i.lora_tensors)
        THEN "MissingSource"
    ELSE "ok"

\* C9: the checks run in the order InvalidIdentifier,
\* IncompleteInMemorySource, AmbiguousSource, MissingSource and the first
\* one violated is the error raised; every call ends in exactly one of
\* success and these four errors.
C9_FirstViolationWins ==
    Called => (Outcome \in Outcomes /\ Outcome = FirstInOrder(Args))

\* numeric_id < 1 together with a partial pair and no path: the identifier
\* error is the one raised
C9_Witness ==
    /\ Called
    /\ Args.lora_int_id < 1
    /\ PartialPair(Args)
    /\ ~NonBlank(Args.lora_path)
    /\ Outcome = "InvalidIdentifier"

\* the input that agrees with i on numeric_id, on whether the path is
\* non-empty after trimming and on which mappings are present, with every
\* other field and the mappings' contents fixed
Canon(i) ==
    [lora_name |-> <<"a">>,
     lora_int_id |-> i.lora_int_id,
     lora_path |-> IF NonBlank(i.lora_path) THEN <<"x">> ELSE <<>>,
     base_model_name |-> None,
     tensorizer_config_dict |-> None,
     load_inplace |-> FALSE,
     peft_config |-> IF Present(i.peft_config) THEN Some({<<"r", 8>>}) ELSE None,
     lora_tensors |-> IF Present(i.lora_tensors) THEN Some({<<"w", 0>>}) ELSE None]

\* C10: the outcome depends only on numeric_id, on whether the path is
\* non-empty after trimming and on whether each mapping is present: every
\* call ends as the call on its canonical input does, so any two inputs that
\* agree on the four facts end alike; load_inplace = TRUE is accepted with
\* either route.
C10_OutcomeOfFourFacts ==
    Called =>
        /\ Outcome = PostInit(Canon(Args))
        /\ (/\ Args.load_inplace
            /\ Args.lora_int_id >= 1
            /\ PathRoute(Args) \/ InMemoryRoute(Args)) => Outcome = "ok"

\* empty but present tensors, every optional field set, load_inplace TRUE:
\* accepted, as the canonical input is
C10_Witness ==
    /\ Called
    /\ Args.lora_name = <<"b">>
    /\ Args.lora_int_id = 2
    /\ Args.lora_path = <<>>
    /\ Args.peft_config = Some({<<"r", 8>>})
    /\ Args.lora_tensors = Some({})
    /\ Args.load_inplace
    /\ Args.base_model_name # None
    /\ Args.tensorizer_config_dict # None
    /\ Outcome = "ok"

---------------------------------------------------------------------------
(* Identity *)

Alive == {s \in Slots : objs[s] # None}
Obj(s) == objs[s][1]

\* exact, case-sensitive equality of two names, character by character
SameName(a, b) ==
    /\ Len(a.lora_name) = Len(b.lora_name)
    /\ \A k \in 1..Len(a.lora_name) : a.lora_name[k] = b.lora_name[k]

\* C6: two valid records are equal if and only if their names are equal,
\* character for character, and equal records have equal hashes, whatever
\* their other fields are.
C6_EqualIffSameName ==
    \A s \in Alive : \A t \in Alive :
        (ValidRecord(Obj(s)) /\ ValidRecord(Obj(t))) =>
            /\ Eq(Obj(s), Obj(t)) <=> SameName(Obj(s), Obj(t))
            /\ Eq(Obj(s), Obj(t)) => Hash(Obj(s)) = Hash(Obj(t))

\* two valid records with the same name that differ in every other field
\* compare equal and hash equal
C6_Witness ==
    /\ Alive = Slots
    /\ ValidRecord(Obj("a")) /\ ValidRecord(Obj("b"))
    /\ Obj("a").lora_name = Obj("b").lora_name
    /\ \A f \in Fields \ {"lora_name"} : Obj("a")[f] # Obj("b")[f]
    /\ Eq(Obj("a"), Obj("b"))
    /\ Hash(Obj("a")) = Hash(Obj("b"))

\* C7: the record is immutable after construction: no operation on it
\* changes a field, and every record observable satisfies the construction
\* invariants.
C7_Immutable ==
    [][\A s \in Slots :
        objs'[s] # None =>
            /\ ValidRecord(objs'[s][1])
            /\ objs[s] # None => objs'[s] = objs[s]]_vars

\* C8: the hash and the equality class of a record never change while it is
\* alive: no operation changes hash(r), and r stays equal to every record it
\* was equal to.
C8_HashStable ==
    [][\A s \in Slots :
        (objs[s] # None /\ objs'[s] # None) =>
            /\ Hash(objs'[s][1]) = Hash(objs[s][1])
            /\ \A t \in Slots :
                (/\ objs[t] # None /\ objs'[t] # None
                 /\ Eq(objs[s][1], objs[t][1]))
                    => Eq(objs'[s][1], objs'[t][1])]_vars

=============================================================================
